---- MODULE Spec2Model ----
(***************************************************************************)
(* A model of the Teeko AI player of src/game.py: the TeekoPlayer object   *)
(* (its board, its piece, its depth limit), the pure evaluation functions  *)
(* (game_value, evaluate_line, evaluate_square, heuristic_game_value), the *)
(* successor generator, the alpha-beta search and the move translation of  *)
(* make_move, and opponent_move / place_piece.                             *)
(*                                                                         *)
(* Boards are Python lists of five row lists.  Row lists are heap objects: *)
(* `rows` maps a row address to the row's five cells, and a board is the   *)
(* tuple of its five row addresses, so that copying, aliasing and in-place *)
(* writes are what they are in the program.  Source indices are 0-based;   *)
(* At(state, i, j) is state[i][j].                                         *)
(*                                                                         *)
(* Scores are Python floats.  The model keeps them as exact multiples of   *)
(* 0.0001 (One = 1.0): every literal of the heuristic and every product    *)
(* 0.25 * s it forms is such a multiple.  IEEE rounding (errors of about   *)
(* 1e-16) is not modelled.                                                 *)
(***************************************************************************)
EXTENDS Integers, Sequences, FiniteSets, TLC

VARIABLES
    my_piece,     \* self.my_piece
    max_depth,    \* self.max_depth
    rows,         \* the heap of row lists: address -> <<c0, c1, c2, c3, c4>>
    board,        \* self.board: the five row addresses of the engine's board
    pc,           \* position of the caller
    out,          \* what the last call returned (or raised)
    mm,           \* the locals of the last make_move: state, drop_phase, original_depth
    stack,        \* the minimax frames that are inside their successor loop
    call,         \* the minimax call about to run: <<>> or <<[state, depth, alpha, beta]>>
    ret,          \* the pair a minimax call just returned: <<>> or <<[value, state]>>
    best,         \* history: the cells of the best_state the last search returned
    hlog,         \* history: the cells of the state heuristic_game_value last ran on
    pruned,       \* history: the number of successors the breaks of the search skipped
    game,         \* main's piece_count and turn, and the moves each side has made
    rootvals,     \* history: the values the calls for the root's successors returned
    setup,        \* the caller's count of the pieces it has set up
    reply         \* the opponent's last move and the exception it raised, if any

vars == <<my_piece, max_depth, rows, board, pc, out, mm, stack, call, ret, best, hlog,
          pruned, game, rootvals, setup, reply>>

pieces == <<"b", "r">>
Empty == " "
N == 5
One == 10000
Idx == 0 .. (N - 1)

(***************************************************************************)
(* Heap access                                                             *)
(***************************************************************************)
\* The cells of the board object `state`, as a 5-tuple of 5-tuples.
Value(h, state) == [i \in 1 .. N |-> h[state[i]]]

\* state[i][j] of a board value, 0-based as in the source.
At(s, i, j) == s[i + 1][j + 1]

EmptyRow == [j \in 1 .. N |-> Empty]

\* [[' ' for j in range(5)] for i in range(5)]
EmptyBoard == [i \in 1 .. N |-> EmptyRow]

opponent_piece == IF my_piece = "b" THEN "r" ELSE "b"

(***************************************************************************)
(* The windows the evaluators scan, in the order of the source's loops.    *)
(* The n-th window of a family (n from 1) is the one of the n-th pass      *)
(* through the family's nested loops.                                      *)
(***************************************************************************)
\* The four cells from (i, j) on in steps of (di, dj).
Line(s, i, j, di, dj) ==
    <<At(s, i, j), At(s, i + di, j + dj),
      At(s, i + 2 * di, j + 2 * dj), At(s, i + 3 * di, j + 3 * dj)>>

\* A variant of row_window that only takes the windows at column offset 0.
row_window_offset0(s, n) == Line(s, (n - 1) \div 2, 0, 0, 1)

\* for i in range(5): for j in range(2): state[i][j:j+4]
row_window(s, n) == Line(s, (n - 1) \div 2, (n - 1) % 2, 0, 1)

\* for i in range(2): for j in range(5): [state[i+k][j] for k in range(4)]
col_window(s, n) == Line(s, (n - 1) \div 5, (n - 1) % 5, 1, 0)

\* for i in range(2): for j in range(2): [state[i+k][j+k] for k in range(4)]
\* then for i in range(2): for j in range(4, 2, -1): [state[i+k][j-k] ...]
down_right_window(s, n) == Line(s, (n - 1) \div 2, (n - 1) % 2, 1, 1)
down_left_window(s, n) == Line(s, (n - 1) \div 2, 4 - ((n - 1) % 2), 1, -1)

\* for i in range(4): for j in range(4):
\*     [state[i][j], state[i][j+1], state[i+1][j], state[i+1][j+1]]
square_window(s, n) ==
    LET i == (n - 1) \div 4
        j == (n - 1) % 4
    IN  <<At(s, i, j), At(s, i, j + 1), At(s, i + 1, j), At(s, i + 1, j + 1)>>

(***************************************************************************)
(* game_value                                                              *)
(***************************************************************************)
\* all(cell == p for the four cells of the window)
AllAre(line, p) == line[1] = p /\ line[2] = p /\ line[3] = p /\ line[4] = p

\* The four families of 4-in-line loops.  In each, the first complete window
\* in loop order decides; within a window self is tested before the opponent.
RECURSIVE ScanRows(_, _)
ScanRows(s, n) ==
    IF n > 10 THEN 0
    ELSE LET line == row_window(s, n)
         IN  IF AllAre(line, my_piece) THEN 1
             ELSE IF AllAre(line, opponent_piece) THEN -1
             ELSE ScanRows(s, n + 1)

RECURSIVE ScanCols(_, _)
ScanCols(s, n) ==
    IF n > 10 THEN 0
    ELSE LET line == col_window(s, n)
         IN  IF AllAre(line, my_piece) THEN 1
             ELSE IF AllAre(line, opponent_piece) THEN -1
             ELSE ScanCols(s, n + 1)

RECURSIVE ScanDownRight(_, _)
ScanDownRight(s, n) ==
    IF n > 4 THEN 0
    ELSE LET line == down_right_window(s, n)
         IN  IF AllAre(line, my_piece) THEN 1
             ELSE IF AllAre(line, opponent_piece) THEN -1
             ELSE ScanDownRight(s, n + 1)

RECURSIVE ScanDownLeft(_, _)
ScanDownLeft(s, n) ==
    IF n > 4 THEN 0
    ELSE LET line == down_left_window(s, n)
         IN  IF AllAre(line, my_piece) THEN 1
             ELSE IF AllAre(line, opponent_piece) THEN -1
             ELSE ScanDownLeft(s, n + 1)

\* The 2x2 loop: four equal cells that hold a piece.
RECURSIVE ScanSquares(_, _)
ScanSquares(s, n) ==
    IF n > 16 THEN 0
    ELSE LET sq == square_window(s, n)
             equal == sq[1] = sq[2] /\ sq[2] = sq[3] /\ sq[3] = sq[4]
         IN  IF equal /\ sq[1] = my_piece THEN 1
             ELSE IF equal /\ sq[1] = opponent_piece THEN -1
             ELSE ScanSquares(s, n + 1)

\* A variant of game_value that scans the 2x2 blocks before the lines.
game_value_squares_first(s) ==
    LET q == ScanSquares(s, 1) IN
    IF q # 0 THEN q ELSE
    LET h == ScanRows(s, 1) IN
    IF h # 0 THEN h ELSE
    LET v == ScanCols(s, 1) IN
    IF v # 0 THEN v ELSE
    LET d == ScanDownRight(s, 1) IN
    IF d # 0 THEN d ELSE ScanDownLeft(s, 1)

game_value(s) ==
    LET h == ScanRows(s, 1) IN
    IF h # 0 THEN h ELSE
    LET v == ScanCols(s, 1) IN
    IF v # 0 THEN v ELSE
    LET d == ScanDownRight(s, 1) IN
    IF d # 0 THEN d ELSE
    LET e == ScanDownLeft(s, 1) IN
    IF e # 0 THEN e ELSE ScanSquares(s, 1)

(***************************************************************************)
(* The heuristic                                                           *)
(***************************************************************************)
\* list.count(p)
Count(line, p) ==
    (IF line[1] = p THEN 1 ELSE 0) + (IF line[2] = p THEN 1 ELSE 0)
    + (IF line[3] = p THEN 1 ELSE 0) + (IF line[4] = p THEN 1 ELSE 0)

Max2(a, b) == IF a >= b THEN a ELSE b
Min2(a, b) == IF a <= b THEN a ELSE b

\* A variant of evaluate_line with my_count >= 2 for the 0.50 case.
evaluate_line_ge2(line, mine, theirs) ==
    LET my_count == Count(line, mine)
        opp_count == Count(line, theirs)
        empty_count == Count(line, Empty)
    IN  IF opp_count > 0 /\ my_count > 0
        THEN LET block_bonus == IF opp_count = 3 /\ empty_count = 1 THEN 7500 ELSE 0
             IN  block_bonus + 1500 * my_count - 2500 * opp_count + 500 * empty_count
        ELSE IF my_count = 3 /\ empty_count = 1 THEN 7500
        ELSE IF my_count >= 2 THEN 5000
        ELSE IF my_count = 1 THEN 2500
        ELSE 0

evaluate_line(line, mine, theirs) ==
    LET my_count == Count(line, mine)
        opp_count == Count(line, theirs)
        empty_count == Count(line, Empty)
    IN  IF opp_count > 0 /\ my_count > 0
        THEN LET block_bonus == IF opp_count = 3 /\ empty_count = 1 THEN 7500 ELSE 0
             IN  block_bonus + 1500 * my_count - 2500 * opp_count + 500 * empty_count
        ELSE IF my_count = 3 /\ empty_count = 1 THEN 7500
        ELSE IF my_count = 2 /\ empty_count >= 2 THEN 5000
        ELSE IF my_count = 1 THEN 2500
        ELSE 0

evaluate_square(square, mine, theirs) ==
    LET a == square[1]
        b == square[2]
        c == square[3]
        d == square[4]
        my_count == Count(square, mine)
        opp_count == Count(square, theirs)
        empty_count == Count(square, Empty)
        Both(x, y, bonus) == IF x = mine /\ y = mine THEN bonus ELSE 0
    IN  IF my_count > 0 /\ opp_count > 0
        THEN LET threat_penalty == 2500 * opp_count
                 block_bonus == 1500 * my_count
                 score == block_bonus - threat_penalty + 500 * empty_count
             IN  Max2(Min2(score, 4000), -4000)
        ELSE LET score == Both(a, b, 2200) + Both(c, d, 2200)
                           + Both(a, c, 2200) + Both(b, d, 2200)
                           + Both(a, d, 2800) + Both(b, c, 2800)
                           + 1000 * my_count + 500 * empty_count
             IN  Min2(score, 9000)

\* top_two_sum: the last two entries of sorted(bucket_list), that is the
\* largest and the second largest entry of the bucket, found in one pass
\* (every bucket has at least two entries).
RECURSIVE TopTwo(_, _, _, _)
TopTwo(bucket, n, top, second) ==
    IF n \notin DOMAIN bucket THEN <<top, second>>
    ELSE LET v == bucket[n]
         IN  IF v >= top THEN TopTwo(bucket, n + 1, v, top)
             ELSE IF v > second THEN TopTwo(bucket, n + 1, top, v)
             ELSE TopTwo(bucket, n + 1, top, second)

top_two_sum(bucket) ==
    LET v1 == bucket[1]
        v2 == bucket[2]
    IN  TopTwo(bucket, 3, Max2(v1, v2), Min2(v1, v2))

\* The four buckets of one side: the scores of every window of the family.
horizontal(s, mine, theirs) ==
    [n \in 1 .. 10 |-> evaluate_line(row_window(s, n), mine, theirs)]

vertical(s, mine, theirs) ==
    [n \in 1 .. 10 |-> evaluate_line(col_window(s, n), mine, theirs)]

diagonal(s, mine, theirs) ==
    [n \in 1 .. 8 |-> IF n <= 4
                      THEN evaluate_line(down_right_window(s, n), mine, theirs)
                      ELSE evaluate_line(down_left_window(s, n - 4), mine, theirs)]

square(s, mine, theirs) ==
    [n \in 1 .. 16 |-> evaluate_square(square_window(s, n), mine, theirs)]

\* One side's sum over the four buckets of top + 0.25 * second.
BucketSum(s, mine, theirs) ==
    LET Part(bucket) == LET ts == top_two_sum(bucket) IN ts[1] + (ts[2] \div 4)
    IN  Part(horizontal(s, mine, theirs)) + Part(vertical(s, mine, theirs))
        + Part(diagonal(s, mine, theirs)) + Part(square(s, mine, theirs))

center_bonus(s) ==
    LET Owner(i, j, w) == IF At(s, i, j) = my_piece THEN w
                          ELSE IF At(s, i, j) = opponent_piece THEN -w
                          ELSE 0
    IN  Owner(2, 2, 300)
        + Owner(1, 2, 200) + Owner(2, 1, 200) + Owner(2, 3, 200) + Owner(3, 2, 200)
        + Owner(1, 1, 150) + Owner(1, 3, 150) + Owner(3, 1, 150) + Owner(3, 3, 150)

heuristic_game_value(s) ==
    LET heuristic_val == game_value(s)
    IN  IF heuristic_val # 0 THEN heuristic_val * One
        ELSE BucketSum(s, my_piece, opponent_piece)
             - BucketSum(s, opponent_piece, my_piece)
             + center_bonus(s)

(***************************************************************************)
(* Phase and depth limit (make_move, before the search)                    *)
(***************************************************************************)
total_pieces(s) ==
    Cardinality({c \in Idx \X Idx : At(s, c[1], c[2]) # Empty})

\* A variant of the phase test that still drops on a board of eight pieces.
drop_phase_le8(s) == total_pieces(s) <= 8

drop_phase(s) == total_pieces(s) < 8

\* A variant of the depth table with < 4 for <= 4.
search_depth_lt4(s) ==
    IF drop_phase(s)
    THEN IF total_pieces(s) < 4 THEN 3
         ELSE IF total_pieces(s) <= 6 THEN 4
         ELSE 5
    ELSE 5

search_depth(s) ==
    IF drop_phase(s)
    THEN IF total_pieces(s) <= 4 THEN 3
         ELSE IF total_pieces(s) <= 6 THEN 4
         ELSE 5
    ELSE 5

(***************************************************************************)
(* Successor generation, on the heap                                       *)
(***************************************************************************)
\* A shallow copy of state: a new outer list over the same row lists.
shallowcopy(h, state) == [heap |-> h, ref |-> state]

\* copy.deepcopy(state): five new row lists holding the cells of state's rows.
deepcopy(h, state) ==
    LET base == Len(h)
    IN  [heap |-> h \o [i \in 1 .. N |-> h[state[i]]],
         ref |-> [i \in 1 .. N |-> base + i]]

\* A Python list index: a negative index counts from the end.
PyIdx(i) == IF i < 0 THEN i + N ELSE i

\* state[i][j] read from the heap.
Cell(h, state, i, j) == h[state[PyIdx(i) + 1]][PyIdx(j) + 1]

\* state[i][j] = v
SetCell(h, state, i, j, v) == [h EXCEPT ![state[PyIdx(i) + 1]][PyIdx(j) + 1] = v]

\* A variant of the list of directions with no direction in it.
directions_none == <<>>

directions ==
    <<(<<-1, -1>>), (<<-1, 0>>), (<<-1, 1>>),
      (<<0, -1>>), (<<0, 1>>),
      (<<1, -1>>), (<<1, 0>>), (<<1, 1>>)>>

\* A variant of the bounds test without the lower bounds.
InBoundsNoLower(new_x, new_y) == new_x < N /\ new_y < N

\* 0 <= new_x < len(state) and 0 <= new_y < len(state[0])
InBounds(new_x, new_y) == 0 <= new_x /\ new_x < N /\ 0 <= new_y /\ new_y < N

\* The drop-phase loop from cell n (row-major) on; acc is successor_states.
RECURSIVE SuccDrop(_, _, _, _, _)
SuccDrop(h, state, piece, n, acc) ==
    IF n = N * N THEN [heap |-> h, successors |-> acc]
    ELSE LET row_idx == n \div N
             col_idx == n % N
         IN  IF Cell(h, state, row_idx, col_idx) = Empty
             THEN LET c == deepcopy(h, state)
                      h2 == SetCell(c.heap, c.ref, row_idx, col_idx, piece)
                  IN  SuccDrop(h2, state, piece, n + 1, Append(acc, c.ref))
             ELSE SuccDrop(h, state, piece, n + 1, acc)

\* [(i, j) for i in range(5) for j in range(5) if state[i][j] == my_piece]
RECURSIVE piece_locs(_, _, _)
piece_locs(s, piece, n) ==
    IF n = N * N THEN <<>>
    ELSE LET rest == piece_locs(s, piece, n + 1)
         IN  IF At(s, n \div N, n % N) = piece THEN <<(<<n \div N, n % N>>)>> \o rest
             ELSE rest

\* The move-phase loops from the n-th (location, direction) pair on.
RECURSIVE SuccMove(_, _, _, _, _, _)
SuccMove(h, state, piece, locs, n, acc) ==
    IF n = Len(locs) * Len(directions) THEN [heap |-> h, successors |-> acc]
    ELSE LET x == locs[(n \div Len(directions)) + 1][1]
             y == locs[(n \div Len(directions)) + 1][2]
             d == directions[(n % Len(directions)) + 1]
             new_x == x + d[1]
             new_y == y + d[2]
         IN  IF InBounds(new_x, new_y) /\ Cell(h, state, new_x, new_y) = Empty
             THEN LET c == deepcopy(h, state)
                      h2 == SetCell(c.heap, c.ref, new_x, new_y, piece)
                      h3 == SetCell(h2, c.ref, x, y, Empty)
                  IN  SuccMove(h3, state, piece, locs, n + 1, Append(acc, c.ref))
             ELSE SuccMove(h, state, piece, locs, n + 1, acc)

\* succ(state, my_piece): the heap after the call and the list it returns.
succ(h, state, piece) ==
    IF drop_phase(Value(h, state))
    THEN SuccDrop(h, state, piece, 0, <<>>)
    ELSE SuccMove(h, state, piece, piece_locs(Value(h, state), piece, 0), 0, <<>>)

(***************************************************************************)
(* place_piece and opponent_move                                           *)
(***************************************************************************)
\* A move is <<dest>> or <<dest, source>>, each a <<row, col>> pair.
place_piece(h, move, piece) ==
    LET h1 == IF Len(move) > 1
              THEN SetCell(h, board, move[2][1], move[2][2], Empty)
              ELSE h
    IN  SetCell(h1, board, move[1][1], move[1][2], piece)

(***************************************************************************)
(* minimax, one step per call and per return                               *)
(***************************************************************************)
PosInf == 1000 * One
NegInf == -PosInf

\* A variant of the cutoff test with the comparison reversed.
CutoffReversed(alpha, beta) == alpha <= beta

\* if alpha >= beta: break
Cutoff(alpha, beta) == alpha >= beta

\* A variant of the mover with the parities exchanged.
MoverSwapped(depth) == IF depth % 2 = 0 THEN opponent_piece ELSE my_piece

\* The piece that moves at a node of this depth.
Mover(depth) == IF depth % 2 = 0 THEN my_piece ELSE opponent_piece

\* A variant of the recursive call that passes depth on unchanged.
ChildCallSameDepth(f) ==
    <<[state |-> f.successors[f.i], depth |-> f.depth,
       alpha |-> f.alpha, beta |-> f.beta]>>

\* The call of minimax(successor, depth + 1, alpha, beta) from frame f.
ChildCall(f) ==
    <<[state |-> f.successors[f.i], depth |-> f.depth + 1,
       alpha |-> f.alpha, beta |-> f.beta]>>

\* A variant of the visit without the test for a terminal state.
MinimaxVisitNoTerminal ==
    /\ pc = "search" /\ Len(call) = 1
    /\ LET c == call[1]
           r == succ(rows, c.state, Mover(c.depth))
           f == [state |-> c.state, depth |-> c.depth,
                 alpha |-> c.alpha, beta |-> c.beta,
                 successors |-> r.successors, i |-> 1,
                 best_value |-> IF c.depth % 2 = 0 THEN NegInf ELSE PosInf,
                 best_state |-> <<>>,
                 base |-> Len(rows)]
       IN  IF c.depth >= max_depth
           THEN /\ ret' = <<[value |-> heuristic_game_value(Value(rows, c.state)),
                             state |-> c.state]>>
                /\ hlog' = Value(rows, c.state)
                /\ call' = <<>>
                /\ UNCHANGED <<rows, stack>>
           ELSE IF r.successors = <<>>
           THEN /\ ret' = <<[value |-> heuristic_game_value(Value(r.heap, c.state)),
                             state |-> c.state]>>
                /\ hlog' = Value(r.heap, c.state)
                /\ call' = <<>>
                /\ rows' = r.heap
                /\ UNCHANGED stack
           ELSE /\ stack' = Append(stack, f)
                /\ call' = ChildCall(f)
                /\ rows' = r.heap
                /\ UNCHANGED <<ret, hlog>>
    /\ UNCHANGED <<my_piece, max_depth, board, pc, out, mm, best, pruned, game, rootvals, setup, reply>>

\* A variant of MinimaxVisit that tests the depth limit before the game value.
MinimaxVisitDepthFirst ==
    /\ pc = "search" /\ Len(call) = 1
    /\ LET c == call[1]
           game_val == game_value(Value(rows, c.state))
           r == succ(rows, c.state, Mover(c.depth))
           f == [state |-> c.state, depth |-> c.depth,
                 alpha |-> c.alpha, beta |-> c.beta,
                 successors |-> r.successors, i |-> 1,
                 best_value |-> IF c.depth % 2 = 0 THEN NegInf ELSE PosInf,
                 best_state |-> <<>>,
                 base |-> Len(rows)]
       IN  IF c.depth >= max_depth
           THEN /\ ret' = <<[value |-> heuristic_game_value(Value(rows, c.state)),
                             state |-> c.state]>>
                /\ hlog' = Value(rows, c.state)
                /\ call' = <<>>
                /\ UNCHANGED <<rows, stack>>
           ELSE IF game_val # 0
           THEN /\ ret' = <<[value |-> game_val * One, state |-> c.state]>>
                /\ call' = <<>>
                /\ UNCHANGED <<rows, stack, hlog>>
           ELSE IF r.successors = <<>>
           THEN /\ ret' = <<[value |-> heuristic_game_value(Value(r.heap, c.state)),
                             state |-> c.state]>>
                /\ hlog' = Value(r.heap, c.state)
                /\ call' = <<>>
                /\ rows' = r.heap
                /\ UNCHANGED stack
           ELSE /\ stack' = Append(stack, f)
                /\ call' = ChildCall(f)
                /\ rows' = r.heap
                /\ UNCHANGED <<ret, hlog>>
    /\ UNCHANGED <<my_piece, max_depth, board, pc, out, mm, best, pruned, game, rootvals, setup, reply>>

\* A call of minimax up to its first recursive call: a terminal state
\* returns its game value, a state at the depth limit its heuristic value;
\* otherwise the successors of the mover are generated and the loop over them
\* starts (with no successor the heuristic value is returned).
MinimaxVisit ==
    /\ pc = "search" /\ Len(call) = 1
    /\ LET c == call[1]
           game_val == game_value(Value(rows, c.state))
           r == succ(rows, c.state, Mover(c.depth))
           f == [state |-> c.state, depth |-> c.depth,
                 alpha |-> c.alpha, beta |-> c.beta,
                 successors |-> r.successors, i |-> 1,
                 best_value |-> IF c.depth % 2 = 0 THEN NegInf ELSE PosInf,
                 best_state |-> <<>>,
                 base |-> Len(rows)]
       IN  IF game_val # 0
           THEN /\ ret' = <<[value |-> game_val * One, state |-> c.state]>>
                /\ call' = <<>>
                /\ UNCHANGED <<rows, stack, hlog>>
           ELSE IF c.depth >= max_depth
           THEN /\ ret' = <<[value |-> heuristic_game_value(Value(rows, c.state)),
                             state |-> c.state]>>
                /\ hlog' = Value(rows, c.state)
                /\ call' = <<>>
                /\ UNCHANGED <<rows, stack>>
           ELSE IF r.successors = <<>>
           THEN /\ ret' = <<[value |-> heuristic_game_value(Value(r.heap, c.state)),
                             state |-> c.state]>>
                /\ hlog' = Value(r.heap, c.state)
                /\ call' = <<>>
                /\ rows' = r.heap
                /\ UNCHANGED stack
           ELSE /\ stack' = Append(stack, f)
                /\ call' = ChildCall(f)
                /\ rows' = r.heap
                /\ UNCHANGED <<ret, hlog>>
    /\ UNCHANGED <<my_piece, max_depth, board, pc, out, mm, best, pruned, game, rootvals, setup, reply>>

\* A variant of the update in which an equal value replaces the best.
UpdatedOnTies(f, value) ==
    IF f.depth % 2 = 0
    THEN LET better == value >= f.best_value
             bv == IF better THEN value ELSE f.best_value
         IN  [f EXCEPT !.best_value = bv,
                       !.best_state = IF better THEN f.successors[f.i] ELSE @,
                       !.alpha = Max2(f.alpha, bv)]
    ELSE LET better == value <= f.best_value
             bv == IF better THEN value ELSE f.best_value
         IN  [f EXCEPT !.best_value = bv,
                       !.best_state = IF better THEN f.successors[f.i] ELSE @,
                       !.beta = Min2(f.beta, bv)]

\* The frame f after the call for its i-th successor returned `value`.
Updated(f, value) ==
    IF f.depth % 2 = 0
    THEN LET better == value > f.best_value
             bv == IF better THEN value ELSE f.best_value
         IN  [f EXCEPT !.best_value = bv,
                       !.best_state = IF better THEN f.successors[f.i] ELSE @,
                       !.alpha = Max2(f.alpha, bv)]
    ELSE LET better == value < f.best_value
             bv == IF better THEN value ELSE f.best_value
         IN  [f EXCEPT !.best_value = bv,
                       !.best_state = IF better THEN f.successors[f.i] ELSE @,
                       !.beta = Min2(f.beta, bv)]

\* A recursive call returned into the loop of the top frame: the running
\* best and alpha or beta are updated, and the loop goes on with the next
\* successor.
MinimaxNext ==
    /\ pc = "search" /\ Len(ret) = 1 /\ stack # <<>>
    /\ LET f == Updated(stack[Len(stack)], ret[1].value)
       IN  /\ ~Cutoff(f.alpha, f.beta)
           /\ f.i < Len(f.successors)
           /\ stack' = [stack EXCEPT ![Len(stack)] = [f EXCEPT !.i = f.i + 1]]
           /\ call' = ChildCall([f EXCEPT !.i = f.i + 1])
           /\ ret' = <<>>
           /\ rootvals' = IF Len(stack) = 1 THEN Append(rootvals, ret[1].value) ELSE rootvals
    /\ UNCHANGED <<my_piece, max_depth, rows, board, pc, out, mm, best, hlog, pruned, game, setup, reply>>

\* ... or the loop ends (break, or no successor left) and the frame returns
\* (best_value, best_state).  Its successor lists die with it, except that the
\* outermost call hands best_state to its caller.
MinimaxReturn ==
    /\ pc = "search" /\ Len(ret) = 1 /\ stack # <<>>
    /\ LET f == Updated(stack[Len(stack)], ret[1].value)
       IN  /\ Cutoff(f.alpha, f.beta) \/ f.i >= Len(f.successors)
           /\ stack' = SubSeq(stack, 1, Len(stack) - 1)
           /\ ret' = <<[value |-> f.best_value, state |-> f.best_state]>>
           /\ rows' = IF Len(stack) = 1 THEN rows ELSE SubSeq(rows, 1, f.base)
           /\ pruned' = pruned + (Len(f.successors) - f.i)
           /\ rootvals' = IF Len(stack) = 1 THEN Append(rootvals, ret[1].value) ELSE rootvals
    /\ UNCHANGED <<my_piece, max_depth, board, pc, out, mm, call, best, hlog, game, setup, reply>>

(***************************************************************************)
(* make_move                                                               *)
(***************************************************************************)
\* A variant of translate_move that returns [source, dest].
RECURSIVE translate_move_swapped(_, _, _, _, _, _)
translate_move_swapped(h, state, best_state, n, dest, source) ==
    IF n = N * N \/ (dest # <<>> /\ source # <<>>)
    THEN IF dest # <<>> /\ source # <<>> THEN <<source, dest>> ELSE <<>>
    ELSE LET i == n \div N
             j == n % N
             d == IF Cell(h, state, i, j) = Empty /\ Cell(h, best_state, i, j) = my_piece
                  THEN <<i, j>> ELSE dest
             s == IF Cell(h, state, i, j) = my_piece /\ Cell(h, best_state, i, j) = Empty
                  THEN <<i, j>> ELSE source
         IN  translate_move_swapped(h, state, best_state, n + 1, d, s)

\* Drop phase: the first cell (row-major, from cell n on) where state and
\* best_state differ, as the one-element move; [] when there is none.
RECURSIVE translate_drop(_, _, _, _)
translate_drop(h, state, best_state, n) ==
    IF n = N * N THEN <<>>
    ELSE IF Cell(h, state, n \div N, n % N) # Cell(h, best_state, n \div N, n % N)
         THEN <<(<<n \div N, n % N>>)>>
         ELSE translate_drop(h, state, best_state, n + 1)

\* Move phase: the scan that sets dest and source and stops once it has both
\* (<<>> is None); [dest, source] when both were found, [] otherwise.
RECURSIVE translate_move(_, _, _, _, _, _)
translate_move(h, state, best_state, n, dest, source) ==
    IF n = N * N \/ (dest # <<>> /\ source # <<>>)
    THEN IF dest # <<>> /\ source # <<>> THEN <<dest, source>> ELSE <<>>
    ELSE LET i == n \div N
             j == n % N
             d == IF Cell(h, state, i, j) = Empty /\ Cell(h, best_state, i, j) = my_piece
                  THEN <<i, j>> ELSE dest
             s == IF Cell(h, state, i, j) = my_piece /\ Cell(h, best_state, i, j) = Empty
                  THEN <<i, j>> ELSE source
         IN  translate_move(h, state, best_state, n + 1, d, s)

\* make_move(state) up to its call of minimax: the phase, the depth limit
\* for this search, and the outermost call.  The driver passes self.board.
\* (base is the size of the heap and entry the cells of state at the call:
\* bookkeeping of the model.)
MakeMoveCall ==
    /\ pc = "idle"
    /\ mm' = [state |-> board,
              drop_phase |-> drop_phase(Value(rows, board)),
              original_depth |-> max_depth,
              base |-> Len(rows),
              entry |-> Value(rows, board)]
    /\ max_depth' = search_depth(Value(rows, board))
    /\ call' = <<[state |-> board, depth |-> 0, alpha |-> NegInf, beta |-> PosInf]>>
    /\ pc' = "search"
    /\ out' = <<>>
    /\ pruned' = 0
    /\ rootvals' = <<>>
    /\ UNCHANGED <<my_piece, rows, board, stack, ret, best, hlog, game, setup, reply>>

\* make_move after minimax returned: the depth limit is restored and the
\* move is read off the difference between state and best_state.
MakeMoveReturn ==
    /\ pc = "search" /\ Len(ret) = 1 /\ stack = <<>>
    /\ max_depth' = mm.original_depth
    /\ out' = IF mm.drop_phase
              THEN translate_drop(rows, mm.state, ret[1].state, 0)
              ELSE translate_move(rows, mm.state, ret[1].state, 0, <<>>, <<>>)
    /\ best' = Value(rows, ret[1].state)
    /\ rows' = SubSeq(rows, 1, mm.base)
    /\ ret' = <<>>
    /\ pc' = "moved"
    /\ UNCHANGED <<my_piece, board, mm, stack, call, hlog, pruned, game, rootvals, setup, reply>>

\* The driver applies the move: ai.place_piece(move, ai.my_piece).  An empty
\* move makes place_piece fail on move[0].
AIPlace ==
    /\ pc = "moved"
    /\ IF out = <<>>
       THEN pc' = "raised" /\ UNCHANGED rows
       ELSE pc' = "placed" /\ rows' = place_piece(rows, out, my_piece)
    /\ UNCHANGED <<my_piece, max_depth, board, out, mm, stack, call, ret, best, hlog, pruned, game, rootvals, setup, reply>>

Search == MinimaxVisit \/ MinimaxNext \/ MinimaxReturn

(***************************************************************************)
(* opponent_move                                                           *)
(***************************************************************************)
\* self.opp
opp == IF my_piece = pieces[2] THEN pieces[1] ELSE pieces[2]

Abs(x) == IF x < 0 THEN -x ELSE x

\* A variant of the validation that tests the row distance only.
opponent_move_raises_rows_only(h, move) ==
    IF Len(move) > 1 /\ Cell(h, board, move[2][1], move[2][2]) # opp
    THEN "You don't have a piece there!"
    ELSE IF Len(move) > 1 /\ Abs(move[2][1] - move[1][1]) > 1
    THEN "Illegal move: Can only move to an adjacent space"
    ELSE IF Cell(h, board, move[1][1], move[1][2]) # Empty
    THEN "Illegal move detected"
    ELSE ""

\* The exception opponent_move(move) raises on heap h, "" when it raises none.
opponent_move_raises(h, move) ==
    IF Len(move) > 1 /\ Cell(h, board, move[2][1], move[2][2]) # opp
    THEN "You don't have a piece there!"
    ELSE IF Len(move) > 1
            /\ (Abs(move[2][1] - move[1][1]) > 1 \/ Abs(move[2][2] - move[1][2]) > 1)
    THEN "Illegal move: Can only move to an adjacent space"
    ELSE IF Cell(h, board, move[1][1], move[1][2]) # Empty
    THEN "Illegal move detected"
    ELSE ""

\* The moves the driver can read: cells A0 .. E4, one for a drop and two for
\* a relocation.
Cells == Idx \X Idx
DriverMoves == {<<d>> : d \in Cells} \cup {<<d, s>> : d \in Cells, s \in Cells}

\* The driver hands the opponent's move to ai.opponent_move: it is applied,
\* or an exception is raised, the driver prints it and asks again.
OpponentMove ==
    /\ pc = "placed"
    /\ \E move \in DriverMoves :
          LET e == opponent_move_raises(rows, move)
          IN  /\ reply' = [move |-> move, raised |-> e]
              /\ IF e = ""
                 THEN pc' = "replied" /\ rows' = place_piece(rows, move, opp)
                 ELSE pc' = "rejected" /\ UNCHANGED rows
    /\ UNCHANGED <<my_piece, max_depth, board, out, mm, stack, call, ret, best, hlog, pruned, game, rootvals, setup>>

DriverAsksAgain ==
    /\ pc = "rejected"
    /\ pc' = "placed"
    /\ reply' = <<>>
    /\ UNCHANGED <<my_piece, max_depth, rows, board, out, mm, stack, call, ret, best, hlog, pruned, game, rootvals,
                   setup>>

(***************************************************************************)
(* One round of the game from a given position: the engine searches and    *)
(* moves, the opponent answers.                                            *)
(***************************************************************************)
MaxRoot == 7

BoardOf(rs) ==
    [i \in 1 .. N |-> [j \in 1 .. N |->
        IF rs[i][j] = 0 THEN Empty ELSE pieces[rs[i][j]]]]

\* Positions of the game with the engine to move: 0 is an empty cell, 1 is
\* 'b' and 2 is 'r'; 'b' moves first.  They hold 0, 4, 5, 6, 7, 8, 8 and 4
\* pieces.
Roots ==
    << BoardOf(<< <<0,0,0,0,0>>, <<0,0,0,0,0>>, <<0,0,0,0,0>>, <<0,0,0,0,0>>, <<0,0,0,0,0>> >>),
       BoardOf(<< <<0,0,0,0,0>>, <<0,0,0,1,1>>, <<0,0,2,2,0>>, <<0,0,0,0,0>>, <<0,0,0,0,0>> >>),
       BoardOf(<< <<0,0,2,2,0>>, <<0,0,0,1,0>>, <<0,0,0,0,0>>, <<0,1,0,0,0>>, <<0,0,0,0,1>> >>),
       BoardOf(<< <<0,1,0,1,1>>, <<0,2,2,2,0>>, <<0,0,0,0,0>>, <<0,0,0,0,0>>, <<0,0,0,0,0>> >>),
       BoardOf(<< <<2,1,0,1,0>>, <<2,2,1,1,0>>, <<0,0,0,0,0>>, <<0,0,0,0,0>>, <<0,0,0,0,0>> >>),
       BoardOf(<< <<1,1,1,2,0>>, <<1,2,2,2,0>>, <<0,0,0,0,0>>, <<0,0,0,0,0>>, <<0,0,0,0,0>> >>),
       BoardOf(<< <<0,0,2,2,1>>, <<0,0,2,0,1>>, <<0,0,2,1,1>>, <<0,0,0,0,0>>, <<0,0,0,0,0>> >>),
       BoardOf(<< <<0,0,0,2,0>>, <<0,1,0,1,2>>, <<0,0,0,0,0>>, <<0,0,0,0,0>>, <<0,0,0,0,0>> >>)
    >>

\* The piece to move in a position of the game.
ToMove(s) ==
    IF Cardinality({c \in Cells : At(s, c[1], c[2]) = pieces[1]})
       = Cardinality({c \in Cells : At(s, c[1], c[2]) = pieces[2]})
    THEN pieces[1] ELSE pieces[2]

\* The board's rows are the first five objects of the heap.
BoardRef == [i \in 1 .. N |-> i]

\* A TeekoPlayer whose board holds the cells s and whose piece is p.
Player(s, p, turn) ==
    /\ rows = s
    /\ board = BoardRef
    /\ my_piece = p
    /\ max_depth = 3
    /\ pc = "idle"
    /\ out = <<>> /\ mm = <<>> /\ stack = <<>> /\ call = <<>> /\ ret = <<>>
    /\ best = <<>> /\ hlog = <<>> /\ pruned = 0 /\ rootvals = <<>>
    /\ game = [piece_count |-> total_pieces(s),
               turn |-> turn,
               ai_moves |-> 0,
               opp_moves |-> 0]
    /\ setup = [shapes |-> 0, extras |-> 0]
    /\ reply = <<>>

Init ==
    \E k \in 1 .. Min2(MaxRoot, Len(Roots)) :
        Player(Roots[k], ToMove(Roots[k]), IF ToMove(Roots[k]) = pieces[1] THEN 0 ELSE 1)

Next == MakeMoveCall \/ Search \/ MakeMoveReturn \/ AIPlace \/ OpponentMove
        \/ DriverAsksAgain

Spec == Init /\ [][Next]_vars

\* make_move is sequential code: once called, it goes on step by step until
\* the outermost call of minimax has returned and make_move returns.  This
\* is weak fairness of the steps of make_move, WF_vars(pc = "search" /\ Next),
\* written out: in a state with pc = "search" a step of Search or
\* MakeMoveReturn is enabled, and these are the only steps from such a state.
SpecLive ==
    /\ Init /\ [][Next]_vars
    /\ ([]<>(pc # "search") \/ []<><<pc = "search">>_vars)

(***************************************************************************)
(* main: a game from the empty board.  'b' moves first; the engine moves   *)
(* with make_move and place_piece, the opponent's input goes through       *)
(* opponent_move; both loops of main run while game_value is 0, the first  *)
(* while piece_count < 8.                                                  *)
(***************************************************************************)
MaxAIMoves == 4
MaxOppMoves == 5
MaxOppChoices == 1

\* The moves main can hand to opponent_move: one cell in the first loop,
\* [to, from] in the second.
MainInputs ==
    IF game.piece_count < 8
    THEN {<<d>> : d \in Cells}
    ELSE {<<d, s>> : d \in Cells, s \in Cells}

\* The place of an input in the order row 0 .. 4, column A .. E (of the
\* destination, then of the source).
InputRank(move) ==
    (move[1][1] * N + move[1][2]) * (N * N)
    + (IF Len(move) = 2 THEN move[2][1] * N + move[2][2] ELSE 0)

\* The inputs the opponent types: the first MaxOppChoices of those that
\* opponent_move accepts.
OpponentInputs ==
    LET accepted == {m \in MainInputs : opponent_move_raises(rows, m) = ""}
    IN  {m \in accepted :
           Cardinality({x \in accepted : InputRank(x) < InputRank(m)}) < MaxOppChoices}

\* An iteration of a loop of main on the engine's turn, up to the call of
\* make_move.
GameAIMove ==
    /\ game_value(Value(rows, board)) = 0
    /\ my_piece = pieces[game.turn + 1]
    /\ game.ai_moves < MaxAIMoves
    /\ MakeMoveCall

\* ... and after place_piece: piece_count += 1 in the first loop, and the
\* turn passes.
GameTurnDone ==
    /\ pc = "placed"
    /\ pc' = "idle"
    /\ game' = [piece_count |-> IF game.piece_count < 8 THEN game.piece_count + 1
                                ELSE game.piece_count,
                turn |-> (game.turn + 1) % 2,
                ai_moves |-> game.ai_moves + 1,
                opp_moves |-> game.opp_moves]
    /\ UNCHANGED <<my_piece, max_depth, rows, board, out, mm, stack, call, ret, best, hlog,
                   pruned, rootvals, setup, reply>>

\* An iteration on the opponent's turn, with an input opponent_move accepts.
GameOpponentMove ==
    /\ pc = "idle"
    /\ game_value(Value(rows, board)) = 0
    /\ my_piece # pieces[game.turn + 1]
    /\ game.opp_moves < MaxOppMoves
    /\ \E move \in OpponentInputs :
          /\ rows' = place_piece(rows, move, opp)
          /\ reply' = [move |-> move, raised |-> ""]
    /\ game' = [piece_count |-> IF game.piece_count < 8 THEN game.piece_count + 1
                                ELSE game.piece_count,
                turn |-> (game.turn + 1) % 2,
                ai_moves |-> game.ai_moves,
                opp_moves |-> game.opp_moves + 1]
    /\ UNCHANGED <<my_piece, max_depth, board, pc, out, mm, stack, call, ret, best, hlog,
                   pruned, rootvals, setup>>

InitGame == \E p \in {pieces[1], pieces[2]} : Player(EmptyBoard, p, 0)

NextGame == GameAIMove \/ Search \/ MakeMoveReturn \/ AIPlace \/ GameTurnDone
            \/ GameOpponentMove

SpecGame == InitGame /\ [][NextGame]_vars

(***************************************************************************)
(* minimax on its own: a caller sets the depth limit and calls             *)
(* minimax(board, 0, -inf, +inf).                                          *)
(***************************************************************************)
\* The depth limits the caller sets: up to MaxDropDepth on a board in the
\* drop phase, up to MaxMoveDepth on a board in the move phase.
MaxDropDepth == 2
MaxMoveDepth == 3

MinimaxCall ==
    /\ pc = "idle"
    /\ \E limit \in 1 .. Max2(MaxDropDepth, MaxMoveDepth) :
          /\ limit <= (IF drop_phase(Value(rows, board)) THEN MaxDropDepth ELSE MaxMoveDepth)
          /\ max_depth' = limit
    /\ call' = <<[state |-> board, depth |-> 0, alpha |-> NegInf, beta |-> PosInf]>>
    /\ pc' = "search"
    /\ pruned' = 0
    /\ rootvals' = <<>>
    /\ UNCHANGED <<my_piece, rows, board, out, mm, stack, ret, best, hlog, game, setup, reply>>

\* The outermost call returned (value, state) to the caller.
MinimaxDone ==
    /\ pc = "search" /\ Len(ret) = 1 /\ stack = <<>>
    /\ out' = [value |-> ret[1].value, state |-> Value(rows, ret[1].state)]
    /\ ret' = <<>>
    /\ pc' = "returned"
    /\ UNCHANGED <<my_piece, max_depth, rows, board, mm, stack, call, best, hlog, pruned, game, rootvals,
                   setup, reply>>

InitMinimax == Init

NextMinimax == MinimaxCall \/ Search \/ MinimaxDone

SpecMinimax == InitMinimax /\ [][NextMinimax]_vars

(***************************************************************************)
(* game_value as a function of the board: a caller sets a board up with    *)
(* place_piece and calls game_value on it.                                 *)
(***************************************************************************)
MaxShapes == 2
MaxExtra == 1

\* The winning shapes of Teeko, as sets of cells: four in a row, in a
\* column, on a diagonal, and the 2x2 blocks.
WinShapes ==
    {{<<i, j + k>> : k \in 0 .. 3} : i \in 0 .. 4, j \in 0 .. 1}
    \cup {{<<i + k, j>> : k \in 0 .. 3} : i \in 0 .. 1, j \in 0 .. 4}
    \cup {{<<i + k, j + k>> : k \in 0 .. 3} : i \in 0 .. 1, j \in 0 .. 1}
    \cup {{<<i + k, j - k>> : k \in 0 .. 3} : i \in 0 .. 1, j \in 3 .. 4}
    \cup {{<<i, j>>, <<i, j + 1>>, <<i + 1, j>>, <<i + 1, j + 1>>} : i \in 0 .. 3, j \in 0 .. 3}

\* The caller calls place_piece([c], p) for each cell c of a winning shape
\* whose cells are empty ...
PlaceShape ==
    /\ pc = "idle"
    /\ setup.shapes < MaxShapes
    /\ \E W \in WinShapes, p \in {pieces[1], pieces[2]} :
          /\ \A c \in W : Cell(rows, board, c[1], c[2]) = Empty
          /\ rows' = [a \in DOMAIN rows |-> [j \in 1 .. N |->
                        IF <<a - 1, j - 1>> \in W THEN p ELSE rows[a][j]]]
    /\ setup' = [setup EXCEPT !.shapes = @ + 1]
    /\ UNCHANGED <<my_piece, max_depth, board, pc, out, mm, stack, call, ret, best, hlog, pruned, game, rootvals,
                   reply>>

\* ... or for one empty cell.
PlaceOne ==
    /\ pc = "idle"
    /\ setup.extras < MaxExtra
    /\ \E c \in Cells, p \in {pieces[1], pieces[2]} :
          /\ Cell(rows, board, c[1], c[2]) = Empty
          /\ rows' = place_piece(rows, <<c>>, p)
    /\ setup' = [setup EXCEPT !.extras = @ + 1]
    /\ UNCHANGED <<my_piece, max_depth, board, pc, out, mm, stack, call, ret, best, hlog, pruned, game, rootvals,
                   reply>>

\* ai.game_value(ai.board)
GameValueCall ==
    /\ pc = "idle"
    /\ out' = game_value(Value(rows, board))
    /\ pc' = "returned"
    /\ UNCHANGED <<my_piece, max_depth, rows, board, mm, stack, call, ret, best, hlog, pruned, game, rootvals,
                   setup, reply>>

InitGV == \E p \in {pieces[1], pieces[2]} : Player(EmptyBoard, p, 0)

NextGV == PlaceShape \/ PlaceOne \/ GameValueCall

SpecGV == InitGV /\ [][NextGV]_vars

(***************************************************************************)
(* evaluate_line as a function of its arguments: a caller calls            *)
(* ai.evaluate_line(line, my_piece, opponent_piece) on a 4-cell window.    *)
(***************************************************************************)
Windows == {<<a, b, c, d>> : a \in {Empty, pieces[1], pieces[2]},
                             b \in {Empty, pieces[1], pieces[2]},
                             c \in {Empty, pieces[1], pieces[2]},
                             d \in {Empty, pieces[1], pieces[2]}}

EvaluateLineCall ==
    /\ pc = "idle"
    /\ \E line \in Windows, k \in 1 .. 2 :
          /\ call' = <<[line |-> line, my_piece |-> pieces[k], opponent_piece |-> pieces[3 - k]]>>
          /\ out' = evaluate_line(line, pieces[k], pieces[3 - k])
    /\ pc' = "returned"
    /\ UNCHANGED <<my_piece, max_depth, rows, board, mm, stack, ret, best, hlog, pruned, game, rootvals,
                   setup, reply>>

InitLine == InitGV

NextLine == EvaluateLineCall

SpecLine == InitLine /\ [][NextLine]_vars

(***************************************************************************)
(* Properties of game_value                                                *)
(***************************************************************************)
\* The piece p holds a complete winning shape on the board s.
HasShape(s, p) == \E W \in WinShapes : \A c \in W : At(s, c[1], c[2]) = p

\* C1: on a board where at most one side holds a complete winning shape,
\* game_value returns +1 if self holds one, -1 if the opponent holds one and
\* 0 if neither does.
C1_GameValueSign ==
    pc = "returned" =>
        LET s == Value(rows, board)
            mine == HasShape(s, my_piece)
            theirs == HasShape(s, opponent_piece)
        IN  ~(mine /\ theirs) =>
                out = (IF mine THEN 1 ELSE IF theirs THEN -1 ELSE 0)

\* game_value returned -1 on a board where only the opponent holds a shape,
\* with pieces of self on the board.
C1_Witness ==
    /\ pc = "returned"
    /\ out = -1
    /\ HasShape(Value(rows, board), opponent_piece)
    /\ ~HasShape(Value(rows, board), my_piece)
    /\ \E c \in Cells : Cell(rows, board, c[1], c[2]) = my_piece

\* C2, as claimed: on a board where both sides hold a complete winning shape
\* game_value returns +1.
C2_SelfWinsDualBoards ==
    pc = "returned" =>
        LET s == Value(rows, board)
        IN  HasShape(s, my_piece) /\ HasShape(s, opponent_piece) => out = 1

\* The winning shapes in the order game_value looks at them: rows top to
\* bottom (column offset 0, then 1), columns (row offset 0 then 1, left to
\* right within each), down-right diagonals, down-left diagonals (from
\* column 4, then 3), then the 2x2 blocks row by row.
ScanOrder ==
    [n \in 1 .. 10 |-> {<<(n - 1) \div 2, ((n - 1) % 2) + k>> : k \in 0 .. 3}]
    \o [n \in 1 .. 10 |-> {<<((n - 1) \div 5) + k, (n - 1) % 5>> : k \in 0 .. 3}]
    \o [n \in 1 .. 4 |-> {<<((n - 1) \div 2) + k, ((n - 1) % 2) + k>> : k \in 0 .. 3}]
    \o [n \in 1 .. 4 |-> {<<((n - 1) \div 2) + k, 4 - ((n - 1) % 2) - k>> : k \in 0 .. 3}]
    \o [n \in 1 .. 16 |-> {<<(n - 1) \div 4, (n - 1) % 4>>, <<(n - 1) \div 4, ((n - 1) % 4) + 1>>,
                           <<((n - 1) \div 4) + 1, (n - 1) % 4>>,
                           <<((n - 1) \div 4) + 1, ((n - 1) % 4) + 1>>}]

\* The place in ScanOrder of the first shape that p holds complete on s.
FirstShape(s, p) ==
    CHOOSE n \in 1 .. Len(ScanOrder) :
        /\ \A c \in ScanOrder[n] : At(s, c[1], c[2]) = p
        /\ \A m \in 1 .. (n - 1) : \E c \in ScanOrder[m] : At(s, c[1], c[2]) # p

\* C2, amended: on a board where both sides hold a complete winning shape,
\* game_value returns the sign of the side whose first complete shape comes
\* first in the scan order: +1 if it is self's, -1 if it is the opponent's.
C2_FirstShapeInScanOrderWins ==
    pc = "returned" =>
        LET s == Value(rows, board)
        IN  HasShape(s, my_piece) /\ HasShape(s, opponent_piece) =>
                /\ {ScanOrder[n] : n \in 1 .. Len(ScanOrder)} = WinShapes
                /\ out = (IF FirstShape(s, my_piece) < FirstShape(s, opponent_piece)
                          THEN 1 ELSE -1)

\* game_value returned -1 on a board where both sides hold a shape.
C2_Witness ==
    /\ pc = "returned"
    /\ out = -1
    /\ HasShape(Value(rows, board), my_piece)
    /\ HasShape(Value(rows, board), opponent_piece)

(***************************************************************************)
(* Alpha-beta pruning                                                      *)
(***************************************************************************)
\* Minimax without pruning on the cells s: the same terminal test, depth
\* limit, successor order (that of succ) and tie-break (the first strict
\* improvement wins) as minimax, and no alpha or beta.  r is what succ
\* returned for s, and acc the best (value, state) of successors 1 .. k-1.
RECURSIVE MinimaxPlain(_, _, _)
RECURSIVE PlainLoop(_, _, _, _, _)
PlainLoop(r, k, depth, limit, acc) ==
    IF k > Len(r.successors) THEN acc
    ELSE LET child == Value(r.heap, r.successors[k])
             value == MinimaxPlain(child, depth + 1, limit).value
             better == IF depth % 2 = 0 THEN value > acc.value ELSE value < acc.value
         IN  PlainLoop(r, k + 1, depth, limit,
                       IF better THEN [value |-> value, state |-> child] ELSE acc)

MinimaxPlain(s, depth, limit) ==
    LET game_val == game_value(s)
    IN  IF game_val # 0 THEN [value |-> game_val * One, state |-> s]
        ELSE IF depth >= limit THEN [value |-> heuristic_game_value(s), state |-> s]
        ELSE LET r == succ(s, BoardRef, Mover(depth))
             IN  IF r.successors = <<>>
                 THEN [value |-> heuristic_game_value(s), state |-> s]
                 ELSE PlainLoop(r, 1, depth, limit,
                                [value |-> IF depth % 2 = 0 THEN NegInf ELSE PosInf,
                                 state |-> <<>>])

\* C3: minimax with alpha-beta pruning, called with alpha = -infinity and
\* beta = +infinity, returns the value and the child state that minimax
\* without pruning returns, for every root and depth limit.
C3_PruningKeepsDecision ==
    pc = "returned" =>
        out = MinimaxPlain(Value(rows, board), 0, max_depth)

\* A search whose breaks skipped successors returned a child of the root.
C3_Witness ==
    /\ pc = "returned"
    /\ pruned > 0
    /\ max_depth = 3
    /\ out.state # Value(rows, board)
    /\ out = MinimaxPlain(Value(rows, board), 0, max_depth)

(***************************************************************************)
(* The heuristic and the search                                            *)
(***************************************************************************)
\* C4, as claimed: on a state that game_value calls non-terminal the value
\* of heuristic_game_value lies strictly between -1 and 1.  (hlog is the
\* state of the last call of heuristic_game_value by the search.)
C4_HeuristicWithinUnit ==
    (hlog # <<>> /\ game_value(hlog) = 0) =>
        (-One < heuristic_game_value(hlog) /\ heuristic_game_value(hlog) < One)

(***************************************************************************)
(* make_move and place_piece                                               *)
(***************************************************************************)
\* C5: once the driver has applied the move make_move returned with
\* place_piece, the board is the child state the search chose; the move is
\* [(row, col)] in the drop phase and [(row, col), (source_row, source_col)]
\* in the move phase, where the destination was empty and the source held
\* the engine's piece.
C5_MoveReproducesChosenChild ==
    pc = "placed" =>
        /\ Value(rows, board) = best
        /\ mm.drop_phase => Len(out) = 1
        /\ ~mm.drop_phase =>
              /\ Len(out) = 2
              /\ At(mm.entry, out[2][1], out[2][2]) = my_piece
              /\ At(best, out[2][1], out[2][2]) = Empty
        /\ At(mm.entry, out[1][1], out[1][2]) = Empty
        /\ At(best, out[1][1], out[1][2]) = my_piece

\* A relocation was returned and applied, and the board changed by it.
C5_Witness ==
    /\ pc = "placed"
    /\ Len(out) = 2
    /\ Value(rows, board) = best
    /\ best # mm.entry

(***************************************************************************)
(* succ                                                                    *)
(***************************************************************************)
\* The legal moves of piece p on the cells s: with fewer than eight pieces
\* on the board a drop on any empty cell; otherwise a relocation of one of
\* p's pieces to an empty cell one step away in any of the 8 directions.
LegalMoves(s, p) ==
    IF Cardinality({c \in Cells : At(s, c[1], c[2]) # Empty}) < 8
    THEN {<<d>> : d \in {c \in Cells : At(s, c[1], c[2]) = Empty}}
    ELSE {m \in {<<d, c>> : d \in {x \in Cells : At(s, x[1], x[2]) = Empty},
                             c \in {x \in Cells : At(s, x[1], x[2]) = p}} :
            Max2(Abs(m[1][1] - m[2][1]), Abs(m[1][2] - m[2][2])) = 1}

\* The cells after the legal move m of piece p on s.
Played(s, m, p) ==
    [i \in 1 .. N |-> [j \in 1 .. N |->
        IF <<i - 1, j - 1>> = m[1] THEN p
        ELSE IF Len(m) = 2 /\ <<i - 1, j - 1>> = m[2] THEN Empty
        ELSE s[i][j]]]

\* C6: the list succ returns holds exactly one successor per legal move of
\* the piece and nothing else.  (Checked on every call by the search, when
\* the loop over the list starts.)
C6_SuccessorsAreLegalMoves ==
    (pc = "search" /\ stack # <<>> /\ stack[Len(stack)].i = 1 /\ Len(call) = 1) =>
        LET f == stack[Len(stack)]
            s == Value(rows, f.state)
            p == Mover(f.depth)
            got == [k \in 1 .. Len(f.successors) |-> Value(rows, f.successors[k])]
        IN  /\ Len(got) = Cardinality(LegalMoves(s, p))
            /\ {got[k] : k \in 1 .. Len(got)} = {Played(s, m, p) : m \in LegalMoves(s, p)}

\* succ was called in the move phase for a piece with pieces on row 0 and
\* returned relocations.
C6_Witness ==
    /\ pc = "search" /\ stack # <<>> /\ stack[Len(stack)].i = 1 /\ Len(call) = 1
    /\ LET f == stack[Len(stack)]
           s == Value(rows, f.state)
       IN  /\ total_pieces(s) = 8
           /\ \E j \in Idx : At(s, 0, j) = Mover(f.depth)
           /\ Len(f.successors) > 1

\* The row objects of a board.
RowsOf(state) == {state[i] : i \in 1 .. N}

\* C7: succ, minimax and make_move never change the state they are given:
\* during and after make_move the board holds the cells it held at the call,
\* no step of the search changes a row that exists already, and every
\* successor is a copy sharing no row with the state it was generated from
\* or with another successor.
C7_InputUnchanged ==
    /\ [](/\ pc \in {"search", "moved"} => Value(rows, board) = mm.entry
          /\ \A k \in 1 .. Len(stack) :
                LET f == stack[k]
                IN  /\ \A a \in 1 .. Len(f.successors) :
                          /\ RowsOf(f.successors[a]) \cap RowsOf(f.state) = {}
                          /\ Cardinality(RowsOf(f.successors[a])) = N
                          /\ \A b \in 1 .. (a - 1) :
                                RowsOf(f.successors[a]) \cap RowsOf(f.successors[b]) = {}
                    /\ k = 1 => f.state = board
                    /\ k > 1 => f.state = stack[k - 1].successors[stack[k - 1].i])
    /\ [][pc = "search" =>
            \A a \in 1 .. Min2(Len(rows), Len(rows')) : rows'[a] = rows[a]]_vars

\* make_move returned a state that differs from the board, and the board is
\* as it was at the call.
C7_Witness ==
    /\ pc = "moved"
    /\ Value(rows, board) = mm.entry
    /\ best # mm.entry
    /\ hlog # <<>>

(***************************************************************************)
(* opponent_move                                                           *)
(***************************************************************************)
\* C8: a relocation [(row, col), (source_row, source_col)] of the opponent
\* is applied exactly when the source holds the opponent's piece, the
\* destination is empty, and the Chebyshev distance between source and
\* destination is exactly 1; otherwise an exception is raised and the board
\* stays as it was.
C8_RelocationValidated ==
    [][(pc = "placed" /\ pc' # "placed" /\ Len(reply'.move) = 2) =>
          LET dest == reply'.move[1]
              source == reply'.move[2]
              s == Value(rows, board)
              legal == /\ At(s, source[1], source[2]) = opponent_piece
                       /\ At(s, dest[1], dest[2]) = Empty
                       /\ Max2(Abs(source[1] - dest[1]), Abs(source[2] - dest[2])) = 1
          IN  /\ legal => /\ pc' = "replied"
                          /\ reply'.raised = ""
                          /\ Value(rows', board') = Played(s, reply'.move, opponent_piece)
              /\ ~legal => /\ pc' = "rejected"
                           /\ reply'.raised # ""
                           /\ rows' = rows /\ board' = board]_vars

\* A relocation of the opponent was applied.
C8_Witness ==
    /\ pc = "replied"
    /\ Len(reply.move) = 2
    /\ reply.raised = ""
    /\ Cell(rows, board, reply.move[1][1], reply.move[1][2]) = opp
    /\ Cell(rows, board, reply.move[2][1], reply.move[2][2]) = Empty

(***************************************************************************)
(* The depth of the search                                                 *)
(***************************************************************************)
\* C9: make_move searches to depth 3 when the board holds at most 4 pieces
\* (the empty board included), to depth 4 when it holds 5 or 6, and to
\* depth 5 when it holds 7 or is in the move phase (8 or more); the drop
\* phase holds iff it holds fewer than 8.
C9_DepthByPieceCount ==
    pc = "search" =>
        LET n == Cardinality({c \in Cells : At(mm.entry, c[1], c[2]) # Empty})
        IN  /\ n <= 4 => max_depth = 3
            /\ n \in {5, 6} => max_depth = 4
            /\ n >= 7 => max_depth = 5
            /\ mm.entry = EmptyBoard => max_depth = 3
            /\ mm.drop_phase = (n < 8)

\* A search from a board of seven pieces runs with limit 5.
C9_Witness ==
    /\ pc = "search"
    /\ Cardinality({c \in Cells : At(mm.entry, c[1], c[2]) # Empty}) = 7
    /\ max_depth = 5
    /\ Len(stack) = 5

(***************************************************************************)
(* Terminal states in the search                                           *)
(***************************************************************************)
\* C10: a call of minimax on a state with a non-zero game value returns
\* that value, as a float, with the state itself, at any depth and before
\* anything else: no successor is generated and heuristic_game_value is
\* not called, which is only ever called on states of game value 0.
C10_TerminalReturnsGameValue ==
    [][/\ (pc = "search" /\ Len(call) = 1
           /\ game_value(Value(rows, call[1].state)) # 0) =>
              /\ ret' = <<[value |-> game_value(Value(rows, call[1].state)) * One,
                           state |-> call[1].state]>>
              /\ rows' = rows /\ stack' = stack /\ hlog' = hlog
       /\ hlog' # hlog => game_value(hlog') = 0]_vars

\* A call at the depth limit on a terminal state has returned the game
\* value.
C10_Witness ==
    /\ pc = "search" /\ Len(ret) = 1 /\ stack # <<>>
    /\ LET f == stack[Len(stack)]
       IN  /\ f.depth + 1 = max_depth
           /\ ret[1].state = f.successors[f.i]
           /\ game_value(Value(rows, ret[1].state)) # 0
           /\ ret[1].value = game_value(Value(rows, ret[1].state)) * One

(***************************************************************************)
(* evaluate_line                                                           *)
(***************************************************************************)
\* The number of cells of the window line that hold v.
CellsWith(line, v) == Cardinality({n \in 1 .. 4 : line[n] = v})

\* The table of line scores, in units of 0.0001.
LineTable(line, subject, other) ==
    LET subject_count == CellsWith(line, subject)
        other_count == CellsWith(line, other)
        empty_count == CellsWith(line, Empty)
    IN  CASE subject_count > 0 /\ other_count > 0 ->
               (IF other_count = 3 /\ empty_count = 1 THEN 7500 ELSE 0)
               + 1500 * subject_count - 2500 * other_count + 500 * empty_count
          [] other_count = 0 /\ subject_count = 3 /\ empty_count = 1 -> 7500
          [] other_count = 0 /\ subject_count = 2 /\ empty_count = 2 -> 5000
          [] other_count = 0 /\ subject_count = 1 -> 2500
          [] OTHER -> 0

\* C12: evaluate_line(window, subject, other) returns the value of the
\* table for every 4-cell window over {empty, subject, other}: with both
\* present, (0.75 if other-count = 3 and empty-count = 1 else 0)
\* + 0.15*subject - 0.25*other + 0.05*empty; otherwise 0.75 for three subject
\* cells and one empty, 0.50 for two and two, 0.25 for exactly one subject
\* cell, and 0.0 in every other case; [self, self, self, empty] scores 0.75.
C12_EvaluateLineTable ==
    (pc = "returned" /\ Len(call) = 1) =>
        /\ out = LineTable(call[1].line, call[1].my_piece, call[1].opponent_piece)
        /\ call[1].line = <<call[1].my_piece, call[1].my_piece, call[1].my_piece, Empty>>
              => out = 7500

\* evaluate_line returned the score of a mixed window with three cells of
\* the other piece.
C12_Witness ==
    /\ pc = "returned" /\ Len(call) = 1
    /\ CellsWith(call[1].line, call[1].opponent_piece) = 3
    /\ CellsWith(call[1].line, call[1].my_piece) = 1
    /\ out = 1500 - 7500

(***************************************************************************)
(* The state the search returns                                            *)
(***************************************************************************)
\* The cells of the successors of the board for the engine's piece, in the
\* order succ generates them.
RootChildren ==
    LET r == succ(rows, board, my_piece)
    IN  [k \in 1 .. Len(r.successors) |-> Value(r.heap, r.successors[k])]

\* C13: when the outermost call of minimax on a non-terminal board with
\* successors returns, the state it returns is one of the board's immediate
\* successors, not the board itself, and it is the earliest successor in
\* generation order whose call returned the value that is returned: a later
\* successor with an equal value does not replace it.
C13_EarliestBestChild ==
    (pc = "search" /\ stack = <<>> /\ Len(ret) = 1 /\ rootvals # <<>>) =>
        LET chosen == Value(rows, ret[1].state)
        IN  /\ Len(rootvals) = Len(RootChildren)
            /\ chosen # Value(rows, board)
            /\ \E j \in 1 .. Len(RootChildren) :
                  /\ RootChildren[j] = chosen
                  /\ rootvals[j] = ret[1].value
                  /\ \A i \in 1 .. (j - 1) : rootvals[i] # ret[1].value

\* The outermost call returned a successor, and a later successor had the
\* same value.
C13_Witness ==
    /\ pc = "search" /\ stack = <<>> /\ Len(ret) = 1 /\ rootvals # <<>>
    /\ \E j \in 1 .. Len(RootChildren) :
          /\ RootChildren[j] = Value(rows, ret[1].state)
          /\ rootvals[j] = ret[1].value
          /\ \E i \in (j + 1) .. Len(rootvals) : rootvals[i] = ret[1].value

(***************************************************************************)
(* The mover of a node                                                     *)
(***************************************************************************)
\* The cells on which the boards s and g differ.
Changed(s, g) == {c \in Cells : At(s, c[1], c[2]) # At(g, c[1], c[2])}

\* C16: the frame at position k of the stack is the node at depth k - 1; a
\* node at even depth (the root included) is expanded with the engine's
\* piece and maximizes, a node at odd depth is expanded with the opponent's
\* piece and minimizes: every successor differs from its node only by a
\* piece of that mover put on an empty cell (and, in a relocation, taken
\* from its cell), and the running best of a node becomes the maximum (even
\* depth) or the minimum (odd depth) of itself and the value returned to it.
C16_MoverAlternates ==
    /\ [](/\ \A k \in 1 .. Len(stack) : stack[k].depth = k - 1
          /\ (pc = "search" /\ stack # <<>> /\ stack[Len(stack)].i = 1 /\ Len(call) = 1) =>
                LET f == stack[Len(stack)]
                    s == Value(rows, f.state)
                    p == IF Len(stack) % 2 = 1 THEN my_piece ELSE opponent_piece
                IN  /\ f.best_value = (IF Len(stack) % 2 = 1 THEN NegInf ELSE PosInf)
                    /\ \A a \in 1 .. Len(f.successors) :
                          LET g == Value(rows, f.successors[a])
                          IN  /\ \E c \in Changed(s, g) :
                                    At(s, c[1], c[2]) = Empty /\ At(g, c[1], c[2]) = p
                              /\ \A c \in Changed(s, g) :
                                    \/ At(s, c[1], c[2]) = Empty /\ At(g, c[1], c[2]) = p
                                    \/ At(s, c[1], c[2]) = p /\ At(g, c[1], c[2]) = Empty)
    /\ [][(pc = "search" /\ Len(ret) = 1 /\ stack # <<>>) =>
            LET f == stack[Len(stack)]
                expected == IF Len(stack) % 2 = 1 THEN Max2(f.best_value, ret[1].value)
                            ELSE Min2(f.best_value, ret[1].value)
            IN  IF Len(stack') = Len(stack)
                THEN stack'[Len(stack)].best_value = expected
                ELSE ret'[1].value = expected]_vars

\* A node at depth 2 is being expanded under a node at depth 1 that has
\* lowered its running best.
C16_Witness ==
    /\ pc = "search"
    /\ Len(stack) = 3
    /\ stack[2].i > 1
    /\ stack[2].best_value < PosInf
    /\ stack[3].i = 1 /\ Len(call) = 1
    /\ \E c \in Changed(Value(rows, stack[3].state), Value(rows, stack[3].successors[1])) :
          Cell(rows, stack[3].successors[1], c[1], c[2]) = my_piece

(***************************************************************************)
(* Termination of the search                                               *)
(***************************************************************************)
\* C17: the search of make_move runs with a depth limit of 3, 4 or 5, no
\* call of minimax is at a depth greater than the limit, each recursive call
\* is one deeper than its caller, and the outermost call eventually returns
\* a (value, state) pair.
C17_SearchTerminates ==
    /\ [](pc = "search" =>
            /\ max_depth \in {3, 4, 5}
            /\ Len(stack) <= max_depth
            /\ Len(call) = 1 =>
                  /\ call[1].depth <= max_depth
                  /\ call[1].depth = (IF stack = <<>> THEN 0
                                      ELSE stack[Len(stack)].depth + 1))
    /\ (pc = "search" /\ Len(call) = 1 /\ stack = <<>>)
          ~> (pc = "search" /\ stack = <<>> /\ Len(ret) = 1
              /\ ret[1].value \in Int /\ ret[1].state # <<>>)

\* The outermost call of a search with limit 5 that reached the limit has
\* returned.
C17_Witness ==
    /\ pc = "search" /\ stack = <<>> /\ Len(ret) = 1
    /\ max_depth = 5
    /\ hlog # <<>>
    /\ pruned > 0
    /\ ret[1].state # <<>>


\* The number of cells of s that hold p.
Holds(s, p) == Cardinality({c \in Cells : At(s, c[1], c[2]) = p})

\* C11: in a game from the empty board, each of 'b' and 'r' is on at most 4
\* cells of main's board, of every node a search visits and of every
\* successor a search generates.
C11_AtMostFourEach ==
    \A p \in {pieces[1], pieces[2]} :
        /\ Holds(Value(rows, board), p) <= 4
        /\ (pc = "search" /\ Len(call) = 1) => Holds(Value(rows, call[1].state), p) <= 4
        /\ (pc = "search" /\ stack # <<>>) =>
              \A a \in 1 .. Len(stack[Len(stack)].successors) :
                  Holds(Value(rows, stack[Len(stack)].successors[a]), p) <= 4

\* A search from a board of seven pieces in a game has generated the
\* relocations of a board on which both sides have four pieces.
C11_Witness ==
    /\ game.piece_count = 7
    /\ pc = "search" /\ stack # <<>>
    /\ Holds(Value(rows, stack[Len(stack)].state), pieces[1]) = 4
    /\ Holds(Value(rows, stack[Len(stack)].state), pieces[2]) = 4
    /\ stack[Len(stack)].successors # <<>>
    /\ \A a \in 1 .. Len(stack[Len(stack)].successors) :
          Holds(Value(rows, stack[Len(stack)].successors[a]), my_piece) = 4


\* C14: in a game, the side to move on a board without a winner always has
\* a move: on main's board and on every node a search visits.  A call of
\* minimax on such a node below the depth limit gets a non-empty list from
\* succ and enters its loop without asking the heuristic, and make_move
\* never hands main an empty move.
C14_MoverAlwaysHasSuccessor ==
    /\ []((pc = "idle" /\ game_value(Value(rows, board)) = 0) =>
              LegalMoves(Value(rows, board), pieces[game.turn + 1]) # {})
    /\ []((pc = "search" /\ Len(call) = 1
              /\ game_value(Value(rows, call[1].state)) = 0) =>
              LegalMoves(Value(rows, call[1].state), Mover(call[1].depth)) # {})
    /\ [][(pc = "search" /\ Len(call) = 1
              /\ game_value(Value(rows, call[1].state)) = 0
              /\ call[1].depth < max_depth) =>
              /\ Len(stack') = Len(stack) + 1
              /\ stack'[Len(stack')].state = call[1].state
              /\ stack'[Len(stack')].successors # <<>>
              /\ ret' = <<>>
              /\ hlog' = hlog]_vars
    /\ [](pc # "raised" /\ (pc \in {"moved", "placed"} => out # <<>>))

\* A search in a game has generated the relocations of a board of eight
\* pieces without a winner on which one piece of the mover has no empty
\* cell next to it.
C14_Witness ==
    /\ game.ai_moves > 0
    /\ pc = "search" /\ stack # <<>> /\ stack[Len(stack)].i = 1 /\ Len(call) = 1
    /\ LET f == stack[Len(stack)]
           s == Value(rows, f.state)
           p == Mover(f.depth)
       IN  /\ total_pieces(s) = 8
           /\ game_value(s) = 0
           /\ f.successors # <<>>
           /\ \E c \in Cells :
                 /\ At(s, c[1], c[2]) = p
                 /\ \A m \in LegalMoves(s, p) : m[2] # c


\* Both sides hold a complete winning shape on s.
DualWin(s) == HasShape(s, pieces[1]) /\ HasShape(s, pieces[2])

\* C15: in a game from the empty board no board has a complete winning
\* shape of both sides at once: not main's board, no node a search visits
\* and no successor a search generates.
C15_NoDualWin ==
    /\ ~DualWin(Value(rows, board))
    /\ (pc = "search" /\ Len(call) = 1) => ~DualWin(Value(rows, call[1].state))
    /\ (pc = "search" /\ stack # <<>> /\ stack[Len(stack)].i = 1 /\ Len(call) = 1) =>
          \A a \in 1 .. Len(stack[Len(stack)].successors) :
              ~DualWin(Value(rows, stack[Len(stack)].successors[a]))

\* A search in a game visits a board on which the opponent has completed a
\* winning shape while the engine holds three cells of a winning shape whose
\* fourth cell is empty.
C15_Witness ==
    /\ game.ai_moves > 0
    /\ pc = "search" /\ Len(call) = 1
    /\ LET s == Value(rows, call[1].state)
       IN  /\ HasShape(s, opponent_piece)
           /\ ~HasShape(s, my_piece)
           /\ \E W \in WinShapes :
                 /\ Cardinality({c \in W : At(s, c[1], c[2]) = my_piece}) = 3
                 /\ Cardinality({c \in W : At(s, c[1], c[2]) = Empty}) = 1


\* C18: when make_move returns on a board without a winner on which some
\* legal move of the engine completes a winning shape (a successor with
\* game_value +1), the child the search chose has game_value +1.
C18_ImmediateWinTaken ==
    (pc = "moved" /\ game_value(Value(rows, board)) = 0
        /\ \E m \in LegalMoves(Value(rows, board), my_piece) :
              game_value(Played(Value(rows, board), m, my_piece)) = 1) =>
        game_value(best) = 1

====
